---- MODULE Spec2Model ----
(***************************************************************************)
(* Collapsible header controller of ion-header                             *)
(* (core/src/components/header/header.tsx).                                *)
(*                                                                         *)
(* One Header instance (the condensing header, "self") is modelled with    *)
(* its private fields, the page it lives in (the primary header "main",    *)
(* the ion-content and its scroll element), the promise returned by        *)
(* getScrollElement() and the read / write task queues of the frame        *)
(* scheduler.  The helpers imported from ./header.utils are modelled from  *)
(* the specification of the component (sections 4.1 - 4.4).                *)
(***************************************************************************)
EXTENDS Integers, Sequences, FiniteSets, TLC

\* ------------------------------------------------------------------ bounds
MaxSetups == 2      \* setupCollapsibleHeader invocations that reach the await
MaxToolbars == 2    \* ion-toolbar children of one header
MaxScroll == 1      \* largest scrollTop delivered by a scroll event

\* ------------------------------------------------------- program constants
MinScale == 50      \* minimum title scale, in percent
ToolbarHeight == 1  \* clientHeight of one toolbar, in layout units

Headers == {"main", "self"}
NoHeader == "none"
NoIndex == [el |-> "none", toolbars |-> <<>>]
Tags == {"ion-title", "ion-back-button"}

VARIABLES
    \* props and platform
    collapse,                      \* @Prop collapse: "condense" or "none"
    mode,                          \* getIonMode(this): "ios" or "md"
    \* private fields of Header
    collapsibleHeaderInitialized,
    scrollEl,                      \* 0 = undefined
    contentScrollCallback,         \* 0 = undefined, else the closure's setup id
    intersectionObserver,          \* 0 = undefined, else the observer's setup id
    \* component lifecycle and control state
    lifecycle,                     \* "created", "loaded", "unloaded"
    started,                       \* setups that reached await getScrollElement()
    awaiting,                      \* setups suspended at that await
    nextId,                        \* id of the next closure / observer created
    readQueue, writeQueue,         \* tasks queued by readTask / writeTask
    phase,                         \* "idle", "reads", "writes"
    \* the page
    locatable,                     \* page and ion-content can be located
    primaryPresent,                \* an ion-header other than this one is in the page
    mainToolbars, selfToolbars,    \* toolbar counts of the two headers
    listeners,                     \* scroll listeners on the scroll element, in order
    observers,                     \* connected IntersectionObservers
    active,                        \* header -> is-active flag
    scrollTop, titleScale, borderVisible,
    cloneCalls,                    \* tag -> number of cloneElement calls
    clones,                        \* tag -> number of clones in the document
    observerAvailable,             \* the IntersectionObserver constructor exists
    \* observation
    errorReported,                 \* console.error has been called
    uncaughtError,                 \* an exception left a task of the controller
    skippedNoPrimary,              \* a setup read task found no primary header
    everCondense, everIos          \* collapse has been 'condense' / mode has been 'ios'

propVars == <<collapse, mode>>
fieldVars == <<collapsibleHeaderInitialized, scrollEl, contentScrollCallback, intersectionObserver>>
ctlVars == <<lifecycle, started, awaiting, nextId, readQueue, writeQueue, phase>>
pageVars == <<locatable, primaryPresent, mainToolbars, selfToolbars, observerAvailable>>
domVars == <<listeners, observers, active, scrollTop, titleScale, borderVisible, cloneCalls, clones>>
obsVars == <<errorReported, uncaughtError, skippedNoPrimary, everCondense, everIos>>
vars == <<propVars, fieldVars, ctlVars, pageVars, domVars, obsVars>>

\* a queued task; id and main are what the nested read task captures
Task(k, i, m) == [kind |-> k, id |-> i, main |-> m]

\* ------------------------------------------------------------ header.utils
Toolbars(h) == IF h = "main" THEN mainToolbars ELSE selfToolbars

\* createHeaderIndex: NoToolbarsFound for a header without toolbars, else one
\* ToolbarIndex per toolbar (its position in the header) in DOM order
CreateHeaderIndex(h) ==
    IF Toolbars(h) = 0 THEN NoIndex
    ELSE [el |-> h, toolbars |-> [i \in 1..Toolbars(h) |-> i]]

\* setHeaderActive(headerIndex, isActive) applied to the flags f
SetHeaderActive(f, index, isActive) == [f EXCEPT ![index.el] = isActive]

\* handleToolbarIntersection(ev, mainHeaderIndex, scrollHeaderIndex)
HandleToolbarIntersection(f, isIntersecting, mainIndex, scrollIndex) ==
    IF isIntersecting
    THEN SetHeaderActive(SetHeaderActive(f, mainIndex, FALSE), scrollIndex, TRUE)
    ELSE SetHeaderActive(SetHeaderActive(f, mainIndex, TRUE), scrollIndex, FALSE)

Clamp(lo, n, hi) == IF n < lo THEN lo ELSE IF n > hi THEN hi ELSE n

\* title scale (percent) for a scroll offset and a remaining height
ScaleAt_Unclamped(top, rem) ==
    IF rem = 0
    THEN (IF top > 0 THEN MinScale ELSE 100)
    ELSE 100 - (((100 - MinScale) * top) \div rem)
ScaleAt(top, rem) ==
    IF rem = 0
    THEN (IF top > 0 THEN MinScale ELSE 100)
    ELSE Clamp(MinScale, 100 - (((100 - MinScale) * top) \div rem), 100)

\* handleContentScroll(scrollEl, mainHeaderIndex, scrollHeaderIndex,
\* remainingHeight); top is the scrollTop of the scroll element and
\* st = [scale, border] the style state the handler writes.  Without a
\* scroll container the handler does nothing.
HandleContentScroll(el, top, mainIndex, scrollIndex, rem, st) ==
    IF el = 0 THEN st
    ELSE [scale |-> ScaleAt(top, rem),
          border |-> [st.border EXCEPT ![mainIndex.el] = (top > 0)]]

\* ------------------------------------------------------------- header.tsx
\* lines 58-59
CanCollapse_NoModeCheck == collapse = "condense"
CanCollapse == collapse = "condense" /\ mode = "ios"

\* line 63
ShouldSetup_NoGuard == CanCollapse
ShouldSetup == CanCollapse /\ ~collapsibleHeaderInitialized

\* line 61
ShouldDestroy == ~CanCollapse /\ collapsibleHeaderInitialized

\* lines 92-93: first ion-header of the page whose collapse is not 'condense'
MainHeader ==
    IF primaryPresent THEN "main"
    ELSE IF collapse # "condense" THEN "self"
    ELSE NoHeader

\* line 107: clientHeight of the toolbar at position t of the header
ClientHeight(t) == ToolbarHeight * t

\* lines 105-108: the loop from the second toolbar to the last
RECURSIVE SumHeights(_, _)
SumHeights(toolbars, i) ==
    IF i > Len(toolbars) THEN 0
    ELSE ClientHeight(toolbars[i]) + SumHeights(toolbars, i + 1)
RemainingHeight_FromFirst(scrollIndex) == SumHeights(scrollIndex.toolbars, 1)
RemainingHeight(scrollIndex) == SumHeights(scrollIndex.toolbars, 2)

\* line 127: the scroll callback closure l; this.scrollEl is read when the
\* callback runs
ContentScrollCallback_SwappedIndexes(l, top, st) ==
    HandleContentScroll(scrollEl, top, l.scrollIndex, l.mainIndex, l.rem, st)
ContentScrollCallback(l, top, st) ==
    HandleContentScroll(scrollEl, top, l.mainIndex, l.scrollIndex, l.rem, st)

\* line 128: a scroll event runs the registered listeners in order
RECURSIVE DispatchScroll(_, _, _)
DispatchScroll(ls, top, st) ==
    IF ls = <<>> THEN st
    ELSE DispatchScroll(Tail(ls), top, ContentScrollCallback(Head(ls), top, st))

\* lines 74-84
DestroyCollapsibleHeader ==
    /\ observers' = IF intersectionObserver # 0
                    THEN {o \in observers : o.id # intersectionObserver}
                    ELSE observers
    /\ intersectionObserver' = 0
    /\ IF scrollEl # 0 /\ contentScrollCallback # 0
       THEN /\ listeners' = SelectSeq(listeners,
                               LAMBDA l : ~(l.el = scrollEl /\ l.cb = contentScrollCallback))
            /\ contentScrollCallback' = 0
       ELSE UNCHANGED <<listeners, contentScrollCallback>>
    /\ UNCHANGED <<collapsibleHeaderInitialized, scrollEl>>
    /\ UNCHANGED <<started, awaiting, nextId, readQueue, writeQueue, phase>>
    /\ UNCHANGED <<active, scrollTop, titleScale, borderVisible, cloneCalls, clones>>
    /\ UNCHANGED <<errorReported, uncaughtError, skippedNoPrimary>>

\* line 87: content or page missing
SetupEarlyReturn_MarksInitialized ==
    /\ errorReported' = TRUE
    /\ collapsibleHeaderInitialized' = TRUE
    /\ UNCHANGED <<scrollEl, contentScrollCallback, intersectionObserver>>
    /\ UNCHANGED <<started, awaiting, nextId, readQueue, writeQueue, phase>>
    /\ UNCHANGED <<domVars, uncaughtError, skippedNoPrimary>>
SetupEarlyReturn ==
    /\ errorReported' = TRUE
    /\ UNCHANGED fieldVars
    /\ UNCHANGED <<started, awaiting, nextId, readQueue, writeQueue, phase>>
    /\ UNCHANGED <<domVars, uncaughtError, skippedNoPrimary>>

\* lines 86-89: setupCollapsibleHeader up to the await
SetupCollapsibleHeaderBegin ==
    IF ~locatable
    THEN SetupEarlyReturn
    ELSE /\ started < MaxSetups
         /\ awaiting' = awaiting + 1
         /\ started' = started + 1
         /\ UNCHANGED fieldVars
         /\ UNCHANGED <<nextId, readQueue, writeQueue, phase>>
         /\ UNCHANGED <<domVars, obsVars>>

\* lines 55-72
CheckCollapsibleHeader ==
    IF ShouldDestroy THEN DestroyCollapsibleHeader
    ELSE IF ShouldSetup THEN SetupCollapsibleHeaderBegin
    ELSE UNCHANGED <<fieldVars, started, awaiting, nextId, readQueue, writeQueue, phase,
                     domVars, errorReported, uncaughtError, skippedNoPrimary>>

\* lines 43-45
ComponentDidLoad ==
    /\ lifecycle = "created" /\ phase = "idle"
    /\ lifecycle' = "loaded"
    /\ CheckCollapsibleHeader
    /\ UNCHANGED <<propVars, pageVars, everCondense, everIos>>

\* lines 47-49
ComponentDidUpdate ==
    /\ lifecycle = "loaded" /\ phase = "idle"
    /\ CheckCollapsibleHeader
    /\ UNCHANGED <<lifecycle, propVars, pageVars, everCondense, everIos>>

\* lines 51-53
ComponentDidUnload ==
    /\ lifecycle = "loaded" /\ phase = "idle"
    /\ lifecycle' = "unloaded"
    /\ DestroyCollapsibleHeader
    /\ UNCHANGED <<propVars, pageVars, everCondense, everIos>>

\* lines 131-134: writeTask queues the clone task
SetupWriteQueue_NotQueued == writeQueue
SetupWriteQueue == Append(writeQueue, Task("cloneWrite", 0, NoHeader))

\* lines 89-136: the continuation after await contentEl.getScrollElement()
SetupCollapsibleHeaderResume(el) ==
    /\ phase = "idle"
    /\ awaiting > 0
    /\ awaiting' = awaiting - 1
    /\ scrollEl' = el
    /\ readQueue' = Append(readQueue, Task("setupRead", 0, NoHeader))
    /\ writeQueue' = SetupWriteQueue
    /\ collapsibleHeaderInitialized' = TRUE
    /\ UNCHANGED <<contentScrollCallback, intersectionObserver>>
    /\ UNCHANGED <<lifecycle, started, nextId, phase>>
    /\ UNCHANGED <<propVars, pageVars, domVars, obsVars>>

\* line 114: the closure handed to the IntersectionObserver
ToolbarIntersection_Swapped(f, isIntersecting, mainIndex, scrollIndex) ==
    HandleToolbarIntersection(f, isIntersecting, scrollIndex, mainIndex)
ToolbarIntersection(f, isIntersecting, mainIndex, scrollIndex) ==
    HandleToolbarIntersection(f, isIntersecting, mainIndex, scrollIndex)

\* lines 95 and 100: the checks that end the read task early
ReadTaskAborts_NoScrollElCheck(mainHeader, mainHeaderIndex, scrollHeaderIndex) ==
    \/ mainHeader = NoHeader
    \/ mainHeaderIndex = NoIndex \/ scrollHeaderIndex = NoIndex
ReadTaskAborts_NoIndexCheck(mainHeader, mainHeaderIndex, scrollHeaderIndex) ==
    \/ mainHeader = NoHeader \/ scrollEl = 0
ReadTaskAborts(mainHeader, mainHeaderIndex, scrollHeaderIndex) ==
    \/ mainHeader = NoHeader \/ scrollEl = 0
    \/ mainHeaderIndex = NoIndex \/ scrollHeaderIndex = NoIndex

\* lines 91-129: the read task of setup
SetupReadTask ==
    /\ phase = "reads"
    /\ readQueue # <<>>
    /\ Head(readQueue).kind = "setupRead"
    /\ LET id == nextId
           mainHeader == MainHeader
           mainHeaderIndex == IF mainHeader = NoHeader THEN NoIndex
                              ELSE CreateHeaderIndex(mainHeader)
           scrollHeaderIndex == CreateHeaderIndex("self")
       IN  IF ReadTaskAborts(mainHeader, mainHeaderIndex, scrollHeaderIndex)
           THEN /\ readQueue' = Tail(readQueue)
                /\ skippedNoPrimary' = (skippedNoPrimary \/ mainHeader = NoHeader)
                /\ UNCHANGED <<contentScrollCallback, listeners, active, nextId>>
           ELSE /\ active' = SetHeaderActive(active, mainHeaderIndex, FALSE)
                /\ readQueue' = Append(Tail(readQueue), Task("observerRead", id, mainHeader))
                /\ contentScrollCallback' = id
                /\ nextId' = id + 1
                /\ listeners' = Append(listeners,
                                  [cb |-> id, el |-> scrollEl, main |-> mainHeader,
                                   mainIndex |-> mainHeaderIndex,
                                   scrollIndex |-> scrollHeaderIndex,
                                   rem |-> RemainingHeight(scrollHeaderIndex)])
                /\ UNCHANGED skippedNoPrimary
    /\ UNCHANGED <<collapsibleHeaderInitialized, scrollEl, intersectionObserver>>
    /\ UNCHANGED <<lifecycle, started, awaiting, writeQueue, phase>>
    /\ UNCHANGED <<observers, scrollTop, titleScale, borderVisible, cloneCalls, clones>>
    /\ UNCHANGED <<propVars, pageVars, errorReported, uncaughtError, everCondense, everIos>>

\* lines 116-120: the nested read task that creates the observer
ObserverTarget_MainToolbar == [h |-> "main", toolbar |-> 1]
ObserverTarget == [h |-> "self", toolbar |-> 1]

ObserverReadTask ==
    /\ phase = "reads"
    /\ readQueue # <<>>
    /\ Head(readQueue).kind = "observerRead"
    /\ LET t == Head(readQueue)
       IN  IF observerAvailable
           THEN /\ intersectionObserver' = t.id
                /\ observers' = observers \cup
                      {[id |-> t.id, main |-> t.main, target |-> ObserverTarget]}
                /\ UNCHANGED uncaughtError
           ELSE \* new IntersectionObserver(...) throws
                /\ uncaughtError' = TRUE
                /\ UNCHANGED <<intersectionObserver, observers>>
    /\ readQueue' = Tail(readQueue)
    /\ UNCHANGED <<collapsibleHeaderInitialized, scrollEl, contentScrollCallback>>
    /\ UNCHANGED <<lifecycle, started, awaiting, nextId, writeQueue, phase>>
    /\ UNCHANGED <<listeners, active, scrollTop, titleScale, borderVisible, cloneCalls, clones>>
    /\ UNCHANGED <<propVars, pageVars, errorReported, skippedNoPrimary, everCondense, everIos>>

\* cloneElement(tagName): a tag that has a clone is not cloned again
CloneElement(c, tag) == IF c[tag] > 0 THEN c ELSE [c EXCEPT ![tag] = c[tag] + 1]

\* lines 131-134: the write task of setup
ClonedTags_TitleOnly == {"ion-title"}
ClonedTags == {"ion-title", "ion-back-button"}

CloneWriteTask ==
    /\ phase = "writes"
    /\ writeQueue # <<>>
    /\ Head(writeQueue).kind = "cloneWrite"
    /\ writeQueue' = Tail(writeQueue)
    /\ cloneCalls' = [t \in Tags |-> IF t \in ClonedTags THEN cloneCalls[t] + 1
                                     ELSE cloneCalls[t]]
    /\ clones' = [t \in Tags |-> IF t \in ClonedTags THEN CloneElement(clones, t)[t]
                                 ELSE clones[t]]
    /\ UNCHANGED fieldVars
    /\ UNCHANGED <<lifecycle, started, awaiting, nextId, readQueue, phase>>
    /\ UNCHANGED <<listeners, observers, active, scrollTop, titleScale, borderVisible>>
    /\ UNCHANGED <<propVars, pageVars, obsVars>>

\* ------------------------------------------------------- frame scheduler
BeginFrame ==
    /\ phase = "idle"
    /\ readQueue # <<>> \/ writeQueue # <<>>
    /\ phase' = "reads"
    /\ UNCHANGED <<lifecycle, started, awaiting, nextId, readQueue, writeQueue>>
    /\ UNCHANGED <<propVars, fieldVars, pageVars, domVars, obsVars>>

ReadsDone ==
    /\ phase = "reads"
    /\ readQueue = <<>>
    /\ phase' = "writes"
    /\ UNCHANGED <<lifecycle, started, awaiting, nextId, readQueue, writeQueue>>
    /\ UNCHANGED <<propVars, fieldVars, pageVars, domVars, obsVars>>

EndFrame ==
    /\ phase = "writes"
    /\ writeQueue = <<>>
    /\ phase' = "idle"
    /\ UNCHANGED <<lifecycle, started, awaiting, nextId, readQueue, writeQueue>>
    /\ UNCHANGED <<propVars, fieldVars, pageVars, domVars, obsVars>>

\* ------------------------------------------------------------ environment
\* the observer o reports an intersection change of its target
IntersectionEvent(o, isIntersecting) ==
    /\ phase = "idle"
    /\ o \in observers
    /\ active' = ToolbarIntersection(active, isIntersecting,
                                     CreateHeaderIndex(o.main), CreateHeaderIndex("self"))
    /\ UNCHANGED <<listeners, observers, scrollTop, titleScale, borderVisible, cloneCalls, clones>>
    /\ UNCHANGED <<propVars, fieldVars, ctlVars, pageVars, obsVars>>

\* the scroll element is scrolled to offset top and fires a scroll event
ScrollEvent(top) ==
    /\ phase = "idle"
    /\ listeners # <<>>
    /\ scrollTop' = top
    /\ LET st == DispatchScroll(listeners, top,
                                [scale |-> titleScale, border |-> borderVisible])
       IN  /\ titleScale' = st.scale
           /\ borderVisible' = st.border
    /\ UNCHANGED <<listeners, observers, active, cloneCalls, clones>>
    /\ UNCHANGED <<propVars, fieldVars, ctlVars, pageVars, obsVars>>

SetCollapse(c) ==
    /\ lifecycle = "loaded" /\ phase = "idle"
    /\ c # collapse
    /\ collapse' = c
    /\ everCondense' = (everCondense \/ c = "condense")
    /\ UNCHANGED <<mode, everIos, errorReported, uncaughtError, skippedNoPrimary>>
    /\ UNCHANGED <<fieldVars, ctlVars, pageVars, domVars>>

SetMode(m) ==
    /\ lifecycle = "loaded" /\ phase = "idle"
    /\ m # mode
    /\ mode' = m
    /\ everIos' = (everIos \/ m = "ios")
    /\ UNCHANGED <<collapse, everCondense, errorReported, uncaughtError, skippedNoPrimary>>
    /\ UNCHANGED <<fieldVars, ctlVars, pageVars, domVars>>

\* the page gains its ion-content, or its primary header
PageChange ==
    /\ lifecycle = "loaded" /\ phase = "idle"
    /\ \/ ~locatable /\ locatable' = TRUE /\ UNCHANGED primaryPresent
       \/ ~primaryPresent /\ primaryPresent' = TRUE /\ UNCHANGED locatable
    /\ UNCHANGED <<mainToolbars, selfToolbars, observerAvailable>>
    /\ UNCHANGED <<propVars, fieldVars, ctlVars, domVars, obsVars>>

\* ---------------------------------------------------------- specification
Init ==
    /\ collapse \in {"condense", "none"}
    /\ mode \in {"ios", "md"}
    /\ collapsibleHeaderInitialized = FALSE
    /\ scrollEl = 0
    /\ contentScrollCallback = 0
    /\ intersectionObserver = 0
    /\ lifecycle = "created"
    /\ started = 0
    /\ awaiting = 0
    /\ nextId = 1
    /\ readQueue = <<>>
    /\ writeQueue = <<>>
    /\ phase = "idle"
    /\ locatable \in BOOLEAN
    /\ primaryPresent \in BOOLEAN
    /\ mainToolbars \in 0..MaxToolbars
    /\ selfToolbars \in 0..MaxToolbars
    /\ listeners = <<>>
    /\ observers = {}
    /\ active = [h \in Headers |-> TRUE]
    /\ scrollTop = 0
    /\ titleScale = 100
    /\ borderVisible = [h \in Headers |-> FALSE]
    /\ cloneCalls = [t \in Tags |-> 0]
    /\ clones = [t \in Tags |-> 0]
    /\ observerAvailable \in BOOLEAN
    /\ errorReported = FALSE
    /\ uncaughtError = FALSE
    /\ skippedNoPrimary = FALSE
    /\ everCondense = (collapse = "condense")
    /\ everIos = (mode = "ios")

Next ==
    \/ ComponentDidLoad
    \/ ComponentDidUpdate
    \/ ComponentDidUnload
    \/ \E el \in {0, 1} : SetupCollapsibleHeaderResume(el)
    \/ BeginFrame
    \/ SetupReadTask
    \/ ObserverReadTask
    \/ ReadsDone
    \/ CloneWriteTask
    \/ EndFrame
    \/ \E o \in observers, b \in BOOLEAN : IntersectionEvent(o, b)
    \/ \E top \in 0..MaxScroll : ScrollEvent(top)
    \/ \E c \in {"condense", "none"} : SetCollapse(c)
    \/ \E m \in {"ios", "md"} : SetMode(m)
    \/ PageChange

Spec == Init /\ [][Next]_vars

\* Scenario A: collapse = 'condense', mode 'ios', page, content and primary
\* header present, both headers with at least one toolbar; the promise of
\* getScrollElement is eventually resolved and every queued task is run.
InitA ==
    /\ Init
    /\ collapse = "condense" /\ mode = "ios"
    /\ locatable /\ primaryPresent
    /\ mainToolbars >= 1 /\ selfToolbars >= 1
    /\ observerAvailable

ResumeA == SetupCollapsibleHeaderResume(1)

NextA ==
    \/ ComponentDidLoad
    \/ ComponentDidUpdate
    \/ ResumeA
    \/ BeginFrame
    \/ SetupReadTask
    \/ ObserverReadTask
    \/ ReadsDone
    \/ CloneWriteTask
    \/ EndFrame
    \/ \E o \in observers, b \in BOOLEAN : IntersectionEvent(o, b)
    \/ \E top \in 0..MaxScroll : ScrollEvent(top)

SpecA ==
    /\ InitA /\ [][NextA]_vars
    /\ SF_vars(ResumeA)
    /\ WF_vars(BeginFrame) /\ WF_vars(SetupReadTask) /\ WF_vars(ObserverReadTask)
    /\ WF_vars(ReadsDone) /\ WF_vars(CloneWriteTask) /\ WF_vars(EndFrame)

\* ------------------------------------------------------------------ claims
\* the controller states of section 4.5
Active ==
    /\ collapsibleHeaderInitialized
    /\ listeners # <<>>
    /\ observers # {}

CheckStep == ComponentDidLoad \/ ComponentDidUpdate

TeardownStep == ComponentDidUnload \/ (ComponentDidUpdate /\ ShouldDestroy)

\* C1: if collapse has never been 'condense', or the mode has never been
\* 'ios', the controller is Disabled: setup was never entered, the
\* initialized flag is false and no listener or observer is registered.
C1_StaysDisabled ==
    (~everCondense \/ ~everIos) =>
        /\ ~collapsibleHeaderInitialized
        /\ started = 0 /\ ~errorReported /\ awaiting = 0
        /\ readQueue = <<>> /\ writeQueue = <<>>
        /\ scrollEl = 0 /\ contentScrollCallback = 0 /\ intersectionObserver = 0
        /\ listeners = <<>> /\ observers = {}

C1_Witness ==
    /\ lifecycle = "unloaded"
    /\ everCondense /\ ~everIos
    /\ collapse = "condense"

\* C2: a teardown of an Active controller (unload, or an update that finds
\* the collapse conditions false) leaves no scroll listener registered and
\* no observer connected.
C2_TeardownReleasesBoth ==
    [][(Active /\ TeardownStep) => (listeners' = <<>> /\ observers' = {})]_vars

\* C3: at most one scroll listener of the controller is registered and at
\* most one of its observers is connected, in every reachable state.
C3_AtMostOneListenerAndObserver ==
    /\ Len(listeners) <= 1
    /\ Cardinality(observers) <= 1

\* C4: an update of a controller whose initialized flag is set and whose
\* collapse conditions hold changes no field, listener, observer, active
\* flag or clone and schedules no task.
C4_ActiveUpdateIsNoOp ==
    [][(ComponentDidUpdate /\ collapsibleHeaderInitialized /\ CanCollapse) =>
          UNCHANGED <<fieldVars, started, awaiting, readQueue, writeQueue,
                      listeners, observers, active, cloneCalls, clones>>]_vars

C4_Witness ==
    /\ Active /\ CanCollapse
    /\ lifecycle = "loaded" /\ phase = "idle"
    /\ readQueue = <<>> /\ writeQueue = <<>>
    /\ started < MaxSetups /\ locatable

\* C5: an update that tears an Active controller down resets it to
\* Disabled, the state of a controller that was never set up (initialized
\* flag false), so that a later update sets it up again.
C5_TeardownResetsToDisabled ==
    [][(ComponentDidUpdate /\ ShouldDestroy) => ~collapsibleHeaderInitialized']_vars

\* C6: a check that wants to set up but cannot locate page or content
\* reports the error, registers and schedules nothing and leaves the
\* initialized flag false; a check that wants to set up and can locate them
\* proceeds into setup (suspends at getScrollElement).
C6_MissingContentIsRetried ==
    [][(CheckStep /\ ShouldSetup) =>
          IF ~locatable
          THEN /\ errorReported'
               /\ ~collapsibleHeaderInitialized'
               /\ UNCHANGED <<scrollEl, contentScrollCallback, intersectionObserver,
                              started, awaiting, readQueue, writeQueue,
                              listeners, observers, active>>
          ELSE awaiting' = awaiting + 1 /\ started' = started + 1]_vars

C6_Witness ==
    /\ errorReported
    /\ ~collapsibleHeaderInitialized /\ started = 0
    /\ lifecycle = "loaded" /\ CanCollapse /\ locatable

\* C7: when setup found no primary header the failure has been reported and
\* the controller is left Uninitialized, so that the next update retries.
C7_MissingPrimaryIsRetried ==
    skippedNoPrimary =>
        /\ errorReported
        /\ (awaiting = 0 /\ listeners = <<>>) => ~collapsibleHeaderInitialized

\* C8: in scenario A an attach leads to Active with the scroll listener on
\* the scroll container, the observer on the first toolbar of the condensing
\* header and cloneElement invoked for both tags.
AllLive ==
    /\ collapsibleHeaderInitialized
    /\ \E i \in 1..Len(listeners) : listeners[i].el = scrollEl /\ scrollEl # 0
    /\ \E o \in observers : o.target = [h |-> "self", toolbar |-> 1]
    /\ \A t \in Tags : cloneCalls[t] >= 1

C8_AttachReachesActive == (lifecycle = "loaded") ~> AllLive

C8_Witness == lifecycle = "loaded" /\ AllLive /\ phase = "idle"

\* C9: while collapsing is Active exactly one of the primary header's and
\* the condensing header's active flags is true.
C9_ExactlyOneActive ==
    (collapsibleHeaderInitialized /\ listeners # <<>>) =>
        (active["main"] # active["self"])

\* C10: an intersection callback sets the primary header's flag to "not
\* intersecting" and the condensing header's flag to "intersecting" and
\* leaves the title scale alone.
C10_IntersectionTogglesFlags ==
    [][\A o \in observers, b \in BOOLEAN :
          IntersectionEvent(o, b) =>
             /\ active'[o.main] = ~b
             /\ active'["self"] = b
             /\ titleScale' = titleScale]_vars

\* C11: after a scroll event has been processed the border-visible class of
\* the primary header of every registered scroll listener is present exactly
\* when the scroll offset is > 0 (so a return to offset 0 removes it again).
C11_BorderFollowsScroll ==
    [][\A top \in 0..MaxScroll :
          ScrollEvent(top) =>
             \A i \in 1..Len(listeners) :
                borderVisible'[listeners[i].mainIndex.el] = (top > 0)]_vars

\* C12: for every remaining height handed to a scroll listener the title
\* scale is 100% at offset 0, does not grow from offset a to offset b >= a
\* within 0..remaining height, and lies in [MinScale, 100%] at every offset;
\* the scale the handler has written lies in that interval too.
C12_ScaleLaw ==
    /\ titleScale \in MinScale..100
    /\ \A i \in 1..Len(listeners) :
          LET rem == listeners[i].rem
          IN  /\ ScaleAt(0, rem) = 100
              /\ \A a \in 0..rem : \A b \in a..rem : ScaleAt(b, rem) <= ScaleAt(a, rem)
              /\ \A t \in 0..(rem + MaxScroll) : ScaleAt(t, rem) \in MinScale..100

C12_Witness ==
    /\ scrollTop > 0
    /\ titleScale < 100 /\ titleScale > MinScale
    /\ \E i \in 1..Len(listeners) : listeners[i].rem > scrollTop

WellFormedIndex(idx) ==
    /\ idx.el \in Headers
    /\ Toolbars(idx.el) >= 1
    /\ Len(idx.toolbars) = Toolbars(idx.el)
    /\ \A i \in 1..Len(idx.toolbars) : idx.toolbars[i] = i

RECURSIVE CountKind(_, _)
CountKind(q, k) ==
    IF q = <<>> THEN 0
    ELSE (IF Head(q).kind = k THEN 1 ELSE 0) + CountKind(Tail(q), k)

Quiescent ==
    /\ awaiting = 0
    /\ readQueue = <<>> /\ writeQueue = <<>>
    /\ phase = "idle"

\* C16: when the IntersectionObserver primitive is unavailable no error
\* escapes from the controller, and once its tasks have run it holds no
\* scroll listener and no observer.
C16_DegradesWithoutObserver ==
    ~observerAvailable =>
        /\ ~uncaughtError
        /\ Quiescent => (listeners = <<>> /\ observers = {})

\* C17: after componentDidUnload of a controller that started a single
\* setup, also one that was still in flight at the unload, no scroll
\* listener is registered and no observer is connected once all pending
\* tasks have run.
C17_UnloadLeavesClean ==
    (lifecycle = "unloaded" /\ started = 1 /\ Quiescent) =>
        (listeners = <<>> /\ observers = {})

\* the setup read task at the head of the queue finds a reason to abort:
\* no scroll element, no primary header, or a header without toolbars
SetupReadFindsNothing ==
    \/ scrollEl = 0
    \/ ~primaryPresent /\ collapse = "condense"
    \/ selfToolbars = 0
    \/ primaryPresent /\ mainToolbars = 0

\* C18: a setup that aborts (page or content missing at the check, or the
\* read task finding no scroll element, no primary header or a header
\* without toolbars) raises no error, attaches no scroll listener, creates
\* and schedules no observer and leaves every active flag unchanged.
C18_AbortHasNoEffect ==
    [][((CheckStep /\ ShouldSetup /\ ~locatable)
          \/ (SetupReadTask /\ SetupReadFindsNothing)) =>
             /\ UNCHANGED <<listeners, observers, active, uncaughtError,
                            contentScrollCallback, intersectionObserver>>
             /\ CountKind(readQueue', "observerRead") = CountKind(readQueue, "observerRead")]_vars

C18_Witness ==
    /\ skippedNoPrimary
    /\ errorReported
    /\ Quiescent /\ collapsibleHeaderInitialized
    /\ listeners = <<>> /\ observers = {}
    /\ active = [h \in Headers |-> TRUE]

\* sum of the client heights of the toolbars at the positions in S
RECURSIVE HeightOfPositions(_)
HeightOfPositions(S) ==
    IF S = {} THEN 0
    ELSE LET p == CHOOSE x \in S : TRUE
         IN  ClientHeight(p) + HeightOfPositions(S \ {p})

\* C19: the remaining height captured by a scroll listener is the sum of the
\* client heights of the condensing header's toolbars at positions 2..n; it
\* is 0 for a header with one toolbar and never includes the first toolbar.
C19_RemainingHeightBelowFirst ==
    \A i \in 1..Len(listeners) :
        LET n == Len(listeners[i].scrollIndex.toolbars)
        IN  /\ n = selfToolbars
            /\ listeners[i].rem = HeightOfPositions(2..n)
            /\ n = 1 => listeners[i].rem = 0
            /\ listeners[i].rem < HeightOfPositions(1..n)

C19_Witness ==
    \E i \in 1..Len(listeners) :
        /\ Len(listeners[i].scrollIndex.toolbars) = 2
        /\ listeners[i].rem = ClientHeight(2)
        /\ titleScale = ScaleAt(1, ClientHeight(2)) /\ scrollTop = 1

\* C20: the primary header index and the condensing header index used by a
\* registered scroll listener or a connected observer refer to two different
\* header elements.
C20_PrimaryIsNotSelf ==
    /\ \A i \in 1..Len(listeners) :
          listeners[i].mainIndex.el # listeners[i].scrollIndex.el
    /\ \A o \in observers : o.main # "self"

====
